---- MODULE Spec2Model ----
(***************************************************************************)
(* env-inventory: registry of required environment variables, resolution   *)
(* of their values from the live environment, settings documents and       *)
(* compiled-in defaults, and validation (src/src/lib.rs).                  *)
(***************************************************************************)
EXTENDS Integers, Sequences, FiniteSets, TLC

VARIABLES
    registry,   \* inventory::iter::<RequiredVar>() in iteration order
    env,        \* the process environment: name -> value or None
    op,         \* the last operation performed
    docs,       \* the files behind config_paths of the last load call
    envBefore,  \* the environment when the last operation was called
    result,     \* what the last operation returned
    prev,       \* the operation before the last one and what it returned
    envStart,   \* the environment when the process started
    pass,       \* the calls of load_and_validate_env_vars that run in threads
    overlap,    \* a threaded call started while the other one was running
    lastWrite   \* the last env::set_var of a threaded call

vars ==
    <<registry, env, op, docs, envBefore, result, prev, envStart,
      pass, overlap, lastWrite>>

----------------------------------------------------------------------------
(* Bounds of the model *)

\* longest registry explored
MaxReg == 3
\* longest config_paths slice explored
MaxDocs == 3

----------------------------------------------------------------------------
(* Data *)

\* Option::None
None == "<None>"

Names == {"A", "B"}
\* literal values without '~' or '$': shellexpand::full leaves them as they are
Values == {"v1", "v2"}
Hints == {"h"}

\* enum Priority
Priority == {"Unknown", "Library", "Binary"}

\* struct RequiredVar (source is a diagnostic label and is left out)
RequiredVar ==
    [name : Names, default : Values \cup {None}, error : Hints \cup {None},
     priority : Priority]

\* the bytes of the strings that get formatted and sorted
Ascii ==
    "A" :> <<65>> @@ "B" :> <<66>> @@ "h" :> <<104>> @@
    "(missing)" :> <<40, 109, 105, 115, 115, 105, 110, 103, 41>>

\* enum EnvInventoryError and Ok(()), as one record shape
Ok == [kind |-> "Ok", list |-> <<>>, path |-> 0]
ReadFileError(p) == [kind |-> "ReadFileError", list |-> <<>>, path |-> p]
ParseFileError(p) == [kind |-> "ParseFileError", list |-> <<>>, path |-> p]
MissingEnvVars(l) == [kind |-> "MissingEnvVars", list |-> l, path |-> 0]
MissingEnvVar == [kind |-> "MissingEnvVar", list |-> <<>>, path |-> 0]
NoResult == [kind |-> "none", list |-> <<>>, path |-> 0]

\* HashMap<String, String> over the keys of the model; None: key absent
Settings == [Names -> Values \cup {None}]
EmptySettings == [k \in Names |-> None]

\* a file at a path of config_paths: unreadable, not TOML, or TOML whose
\* section holds these string entries (no section: no entries)
File == [kind : {"unreadable", "malformed"}, table : {EmptySettings}]
            \cup [kind : {"toml"}, table : Settings]

----------------------------------------------------------------------------
(* RequiredVar *)

\* is_set that does not look at the environment
is_set_default_only(var, e) == var.default # None

\* RequiredVar::is_set
is_set(var, e) == e[var.name] # None \/ var.default # None

\* get that prefers the default to the environment
get_default_first(var, e) ==
    IF var.default # None THEN var.default ELSE e[var.name]

\* RequiredVar::get
get(var, e) == IF e[var.name] # None THEN e[var.name] ELSE var.default

----------------------------------------------------------------------------
(* validate_env_vars *)

\* bytewise order of String
RECURSIVE StrLess(_, _)
StrLess(s, t) ==
    IF s = <<>> THEN t # <<>>
    ELSE IF t = <<>> THEN FALSE
    ELSE IF Head(s) # Head(t) THEN Head(s) < Head(t)
    ELSE StrLess(Tail(s), Tail(t))

\* the vector without its element at position i
remove_at(v, i) == [j \in 1..(Len(v) - 1) |-> IF j < i THEN v[j] ELSE v[j + 1]]

\* a Vec that is left in the order it was collected in
sort_skipped(v) == v

\* Vec::sort
RECURSIVE sort(_)
sort(v) ==
    IF v = <<>> THEN <<>>
    ELSE LET i == CHOOSE j \in DOMAIN v :
                    \A k \in DOMAIN v : ~StrLess(v[k], v[j])
         IN <<v[i]>> \o sort(remove_at(v, i))

\* HashSet::into_iter().collect::<Vec<String>>(): the elements in any order
collect_vec(S) ==
    { v \in [1..Cardinality(S) -> S] :
        \A i, j \in DOMAIN v : v[i] = v[j] => i = j }

\* format!("{}={}", var.name, err) / format!("{}={}", var.name, "(missing)")
missing_msg(var) ==
    Ascii[var.name] \o <<61>>
        \o (IF var.error # None THEN Ascii[var.error] ELSE Ascii["(missing)"])

\* missing_vars with the filter inverted: the variables that are set
missing_vars_inverted(reg, e) ==
    { missing_msg(reg[i]) : i \in { j \in DOMAIN reg : is_set(reg[j], e) } }

\* the HashSet<String> collected by validate_env_vars
missing_vars(reg, e) ==
    { missing_msg(reg[i]) : i \in { j \in DOMAIN reg : ~is_set(reg[j], e) } }

\* the end of validate_env_vars: sort, then Ok or the list; v is the Vec in
\* the order in which the HashSet hands out its elements
sorted_result(v) ==
    LET l == sort(v) IN IF l = <<>> THEN Ok ELSE MissingEnvVars(l)

\* validate_env_vars: what it can return, one result for every such order
validate_env_vars(reg, e) ==
    { sorted_result(v) : v \in collect_vec(missing_vars(reg, e)) }

----------------------------------------------------------------------------
(* expanded_map *)

\* shellexpand::full on the values of the model
shellexpand_full(v) == [ok |-> v \in Values, value |-> v]

\* the first loop of expanded_map from registry position i on;
\* seen: the keys of seen_vars with their values
RECURSIVE expand_loop(_, _, _, _)
expand_loop(reg, i, e, seen) ==
    IF i > Len(reg) THEN [ok |-> TRUE, env |-> e, seen |-> seen]
    ELSE LET var == reg[i]
             value == get(var, e)
         IN IF seen[var.name] # None \/ value = None
            THEN expand_loop(reg, i + 1, e, seen)
            ELSE LET x == shellexpand_full(value)
                 IN IF ~x.ok THEN [ok |-> FALSE, env |-> e, seen |-> seen]
                    ELSE expand_loop(reg, i + 1,
                                     [e EXCEPT ![var.name] = x.value],
                                     [seen EXCEPT ![var.name] = x.value])

\* expanded_map: the first loop, then every seen value is expanded and
\* written again
expanded_map(reg, e) ==
    LET r == expand_loop(reg, 1, e, EmptySettings)
        keys == { k \in Names : r.seen[k] # None }
    IN IF ~r.ok THEN [ok |-> FALSE, env |-> r.env]
       ELSE IF \E k \in keys : ~shellexpand_full(r.seen[k]).ok
       THEN [ok |-> FALSE, env |-> r.env]
       ELSE [ok |-> TRUE,
             env |-> [k \in Names |->
                        IF k \in keys THEN shellexpand_full(r.seen[k]).value
                        ELSE r.env[k]]]

----------------------------------------------------------------------------
(* load_toml_settings and load_and_validate_env_vars *)

\* load_toml_settings of the file at position p of config_paths
load_toml_settings(f, p) ==
    IF f.kind = "unreadable" THEN [ok |-> FALSE, err |-> ReadFileError(p)]
    ELSE IF f.kind = "malformed" THEN [ok |-> FALSE, err |-> ParseFileError(p)]
    ELSE [ok |-> TRUE, settings |-> f.table]

\* merge_loop where the first file to define a key wins
RECURSIVE merge_loop_first_wins(_, _, _)
merge_loop_first_wins(files, i, merged_settings) ==
    IF i > Len(files) THEN [ok |-> TRUE, settings |-> merged_settings]
    ELSE LET settings == load_toml_settings(files[i], i)
         IN IF settings.ok
            THEN merge_loop_first_wins(files, i + 1,
                    [k \in Names |->
                        IF merged_settings[k] # None THEN merged_settings[k]
                        ELSE settings.settings[k]])
            ELSE IF i = 1 THEN [ok |-> FALSE, err |-> settings.err]
            ELSE merge_loop_first_wins(files, i + 1, merged_settings)

\* merge_loop where no file is mandatory
RECURSIVE merge_loop_all_optional(_, _, _)
merge_loop_all_optional(files, i, merged_settings) ==
    IF i > Len(files) THEN [ok |-> TRUE, settings |-> merged_settings]
    ELSE LET settings == load_toml_settings(files[i], i)
         IN IF settings.ok
            THEN merge_loop_all_optional(files, i + 1,
                    [k \in Names |->
                        IF settings.settings[k] # None THEN settings.settings[k]
                        ELSE merged_settings[k]])
            ELSE merge_loop_all_optional(files, i + 1, merged_settings)

\* the loop over config_paths from position i on
RECURSIVE merge_loop(_, _, _)
merge_loop(files, i, merged_settings) ==
    IF i > Len(files) THEN [ok |-> TRUE, settings |-> merged_settings]
    ELSE LET settings == load_toml_settings(files[i], i)
         IN IF settings.ok
            THEN merge_loop(files, i + 1,
                    [k \in Names |->
                        IF settings.settings[k] # None THEN settings.settings[k]
                        ELSE merged_settings[k]])
            ELSE IF i = 1 THEN [ok |-> FALSE, err |-> settings.err]
            ELSE merge_loop(files, i + 1, merged_settings)

merged_settings(files) == merge_loop(files, 1, EmptySettings)

\* .filter(name, priority).last().and_then(|v| v.default)
last_default(reg, name, priority) ==
    LET S == { j \in DOMAIN reg :
                 reg[j].name = name /\ reg[j].priority = priority }
    IN IF S = {} THEN None
       ELSE reg[CHOOSE j \in S : \A k \in S : k <= j].default

binary_default(reg, name) == last_default(reg, name, "Binary")

library_default(reg, name) == last_default(reg, name, "Library")

\* resolve_loop without step 1: the settings overwrite the environment
RECURSIVE resolve_loop_no_env_check(_, _, _, _)
resolve_loop_no_env_check(reg, i, e, merged) ==
    IF i > Len(reg) THEN e
    ELSE LET name == reg[i].name
         IN IF merged[name] # None
            THEN resolve_loop_no_env_check(reg, i + 1,
                              [e EXCEPT ![name] = merged[name]], merged)
            ELSE IF e[name] # None
            THEN resolve_loop_no_env_check(reg, i + 1, e, merged)
            ELSE IF binary_default(reg, name) # None
            THEN resolve_loop_no_env_check(reg, i + 1,
                              [e EXCEPT ![name] = binary_default(reg, name)], merged)
            ELSE IF library_default(reg, name) # None
            THEN resolve_loop_no_env_check(reg, i + 1,
                              [e EXCEPT ![name] = library_default(reg, name)], merged)
            ELSE resolve_loop_no_env_check(reg, i + 1, e, merged)

\* resolve_loop with steps 3 and 4 before step 2: defaults before settings
RECURSIVE resolve_loop_defaults_first(_, _, _, _)
resolve_loop_defaults_first(reg, i, e, merged) ==
    IF i > Len(reg) THEN e
    ELSE LET name == reg[i].name
         IN IF e[name] # None
            THEN resolve_loop_defaults_first(reg, i + 1, e, merged)
            ELSE IF binary_default(reg, name) # None
            THEN resolve_loop_defaults_first(reg, i + 1,
                              [e EXCEPT ![name] = binary_default(reg, name)], merged)
            ELSE IF library_default(reg, name) # None
            THEN resolve_loop_defaults_first(reg, i + 1,
                              [e EXCEPT ![name] = library_default(reg, name)], merged)
            ELSE IF merged[name] # None
            THEN resolve_loop_defaults_first(reg, i + 1,
                              [e EXCEPT ![name] = merged[name]], merged)
            ELSE resolve_loop_defaults_first(reg, i + 1, e, merged)

\* the loop over the registry from position i on
RECURSIVE resolve_loop(_, _, _, _)
resolve_loop(reg, i, e, merged) ==
    IF i > Len(reg) THEN e
    ELSE LET name == reg[i].name
         IN IF e[name] # None
            THEN resolve_loop(reg, i + 1, e, merged)
            ELSE IF merged[name] # None
            THEN resolve_loop(reg, i + 1, [e EXCEPT ![name] = merged[name]], merged)
            ELSE IF binary_default(reg, name) # None
            THEN resolve_loop(reg, i + 1,
                              [e EXCEPT ![name] = binary_default(reg, name)], merged)
            ELSE IF library_default(reg, name) # None
            THEN resolve_loop(reg, i + 1,
                              [e EXCEPT ![name] = library_default(reg, name)], merged)
            ELSE resolve_loop(reg, i + 1, e, merged)

\* load_and_validate_env_vars that writes every key of the merged settings
\* that the environment lacks, declared or not
load_and_validate_all_keys(reg, e, files) ==
    LET m == merged_settings(files)
    IN IF ~m.ok THEN {[env |-> e, result |-> m.err]}
       ELSE LET written == [k \in Names |->
                              IF e[k] = None THEN m.settings[k] ELSE e[k]]
                x == expanded_map(reg, written)
            IN IF ~x.ok THEN {[env |-> x.env, result |-> MissingEnvVar]}
               ELSE { [env |-> x.env, result |-> r] :
                        r \in validate_env_vars(reg, x.env) }

\* load_and_validate_env_vars: the outcomes it can have, each the
\* environment it leaves and what it returns
load_and_validate_env_vars(reg, e, files) ==
    LET m == merged_settings(files)
    IN IF ~m.ok THEN {[env |-> e, result |-> m.err]}
       ELSE LET resolved == resolve_loop(reg, 1, e, m.settings)
                x == expanded_map(reg, resolved)
            IN IF ~x.ok THEN {[env |-> x.env, result |-> MissingEnvVar]}
               ELSE { [env |-> x.env, result |-> r] :
                        r \in validate_env_vars(reg, x.env) }

----------------------------------------------------------------------------
(* The state machine *)

\* register!(X), register!(X = "v"), register!(X = "v"; Binary) and the
\* RequiredVar literal of Binary priority without a default; B takes its
\* defaults from one value
PriorityVars ==
    [name : {"A"}, default : Values \cup {None}, error : {None},
     priority : {"Library", "Binary"}]
      \cup [name : {"B"}, default : {None, "v1"}, error : {None},
            priority : {"Library", "Binary"}]

\* register!(X), register!(X | "h") and register!(X = "v1")
HintVars ==
    [name : Names, default : {None}, error : Hints \cup {None},
     priority : {"Library"}]
      \cup [name : Names, default : {"v1"}, error : {None},
            priority : {"Library"}]

SeqsUpTo(S, n) == UNION { [1..m -> S] : m \in 0..n }

Registries == SeqsUpTo(PriorityVars, MaxReg)

HintRegistries == SeqsUpTo(HintVars, MaxReg)

\* registries that declare every name at most once
OncePerName ==
    { r \in SeqsUpTo([name : Names, default : {None, "v1"}, error : {None},
                      priority : {"Library"}], Cardinality(Names)) :
        \A i, j \in DOMAIN r : r[i].name = r[j].name => i = j }

\* config_paths with no path or with one path
ShortFileLists == {<<>>} \cup { <<f>> : f \in File }

FileLists == SeqsUpTo(File, MaxDocs)

\* the two threads that may each call load_and_validate_env_vars
Threads == {"t1", "t2"}

\* a thread that has not called yet
IdlePass ==
    [pc |-> "idle", i |-> 0, merged |-> EmptySettings, value |-> None,
     seen |-> EmptySettings, todo |-> {}, missing |-> {}, result |-> NoResult]

NoWrite == [by |-> None, name |-> None, old |-> None, new |-> None]

\* no thread calls
NoThreads ==
    /\ pass = [t \in Threads |-> IdlePass]
    /\ overlap = FALSE
    /\ lastWrite = NoWrite

Init ==
    /\ registry \in Registries
    /\ env \in [Names -> Values \cup {None}]
    /\ op = "init"
    /\ docs = <<>>
    /\ envBefore = env
    /\ result = NoResult
    /\ prev = [op |-> "none", result |-> NoResult]
    /\ envStart = env
    /\ NoThreads

InitHints ==
    /\ registry \in HintRegistries
    /\ env \in [Names -> Values \cup {None}]
    /\ op = "init"
    /\ docs = <<>>
    /\ envBefore = env
    /\ result = NoResult
    /\ prev = [op |-> "none", result |-> NoResult]
    /\ envStart = env
    /\ NoThreads

InitDocs ==
    /\ registry \in OncePerName
    /\ env \in [Names -> Values \cup {None}]
    /\ op = "init"
    /\ docs = <<>>
    /\ envBefore = env
    /\ result = NoResult
    /\ prev = [op |-> "none", result |-> NoResult]
    /\ envStart = env
    /\ NoThreads

\* a call of load_and_validate_env_vars(config_paths, section) where the
\* paths name these files
LoadFiles(files) ==
    \E r \in load_and_validate_env_vars(registry, env, files) :
        /\ op' = "load"
        /\ docs' = files
        /\ envBefore' = env
        /\ env' = r.env
        /\ result' = r.result
        /\ prev' = [op |-> op, result |-> result]
        /\ UNCHANGED <<registry, envStart, pass, overlap, lastWrite>>

\* the first call of the process, with no file or one file
Load == op = "init" /\ \E files \in ShortFileLists : LoadFiles(files)

\* the first call of the process, with any list of files
LoadDocs == op = "init" /\ \E files \in FileLists : LoadFiles(files)

\* a call of validate_env_vars()
Validate ==
    /\ op' = "validate"
    /\ docs' = <<>>
    /\ envBefore' = env
    /\ result' \in validate_env_vars(registry, env)
    /\ prev' = [op |-> op, result |-> result]
    /\ UNCHANGED <<registry, env, envStart, pass, overlap, lastWrite>>

\* a call at any time, the first or a later one, with no file or one file
LoadAgain == \E files \in ShortFileLists : LoadFiles(files)

Next == Load \/ Validate

Spec == Init /\ [][Next]_vars

SpecHints == InitHints /\ [][Next]_vars

NextDocs == LoadDocs \/ Validate

NextCalls == LoadAgain \/ Validate

SpecDocs == InitDocs /\ [][NextDocs]_vars

\* any sequence of calls, one after the other, on a registry that declares
\* every name at most once
SpecCalls == InitDocs /\ [][NextCalls]_vars

----------------------------------------------------------------------------
(* load_and_validate_env_vars called by two threads; a step is one call of *)
(* env::var or env::set_var together with the code up to the next one      *)

\* step 1 that finds no name set
var_is_ok_never(v) == FALSE

\* env::var(name).is_ok() of step 1, v being what the environment holds
var_is_ok(v) == v # None

\* steps 2 to 4 of the loop for one name: the value to set, None for none
resolve_value(reg, name, merged) ==
    IF merged[name] # None THEN merged[name]
    ELSE IF binary_default(reg, name) # None THEN binary_default(reg, name)
    ELSE library_default(reg, name)

\* the code that runs without reading or writing the environment: the ends
\* of the loops and the declarations expanded_map skips as seen
RECURSIVE advance(_, _)
advance(reg, p) ==
    IF p.pc = "resolve" /\ p.i > Len(reg)
    THEN advance(reg, [p EXCEPT !.pc = "expand", !.i = 1])
    ELSE IF p.pc = "expand" /\ p.i > Len(reg)
    THEN advance(reg, [p EXCEPT !.pc = "rewrite", !.i = 0,
                                !.todo = { k \in Names : p.seen[k] # None }])
    ELSE IF p.pc = "expand" /\ p.seen[reg[p.i].name] # None
    THEN advance(reg, [p EXCEPT !.i = @ + 1])
    ELSE IF p.pc = "rewrite" /\ p.todo = {}
    THEN [p EXCEPT !.pc = "validate", !.i = 1]
    ELSE p

\* env::set_var(name, value) by thread t
set_var(t, name, value) ==
    /\ env' = [env EXCEPT ![name] = value]
    /\ lastWrite' = [by |-> t, name |-> name, old |-> env[name], new |-> value]

\* the call begins: the files are read and merged
Start(t) ==
    /\ pass[t].pc = "idle"
    /\ \E files \in ShortFileLists :
        LET m == merged_settings(files)
        IN pass' = [pass EXCEPT ![t] =
                      IF ~m.ok THEN [IdlePass EXCEPT !.pc = "done", !.result = m.err]
                      ELSE advance(registry, [IdlePass EXCEPT !.pc = "resolve", !.i = 1,
                                                              !.merged = m.settings])]
    /\ overlap' = (overlap \/ \E u \in Threads \ {t} : pass[u].pc \notin {"idle", "done"})
    /\ UNCHANGED <<registry, env, op, docs, envBefore, result, prev, envStart, lastWrite>>

\* step 1 for declaration i, and the choice of the value of steps 2 to 4
ResolveRead(t) ==
    LET p == pass[t]
    IN /\ p.pc = "resolve"
       /\ LET name == registry[p.i].name
              value == resolve_value(registry, name, p.merged)
          IN pass' = [pass EXCEPT ![t] =
                        IF var_is_ok(env[name]) \/ value = None
                        THEN advance(registry, [p EXCEPT !.i = @ + 1])
                        ELSE [p EXCEPT !.pc = "set", !.value = value]]
       /\ UNCHANGED <<registry, env, op, docs, envBefore, result, prev, envStart,
                      overlap, lastWrite>>

\* the env::set_var of steps 2 to 4 for declaration i
ResolveSet(t) ==
    LET p == pass[t]
    IN /\ p.pc = "set"
       /\ set_var(t, registry[p.i].name, p.value)
       /\ pass' = [pass EXCEPT ![t] =
                     advance(registry, [p EXCEPT !.pc = "resolve", !.i = @ + 1,
                                                 !.value = None])]
       /\ UNCHANGED <<registry, op, docs, envBefore, result, prev, envStart, overlap>>

\* expanded_map, first loop: var.get() for declaration i and the expansion
ExpandRead(t) ==
    LET p == pass[t]
    IN /\ p.pc = "expand"
       /\ LET value == get(registry[p.i], env)
              x == shellexpand_full(value)
          IN pass' = [pass EXCEPT ![t] =
                        IF value = None
                        THEN advance(registry, [p EXCEPT !.i = @ + 1])
                        ELSE IF ~x.ok
                        THEN [IdlePass EXCEPT !.pc = "done", !.result = MissingEnvVar]
                        ELSE [p EXCEPT !.pc = "expand_set", !.value = x.value]]
       /\ UNCHANGED <<registry, env, op, docs, envBefore, result, prev, envStart,
                      overlap, lastWrite>>

\* expanded_map, first loop: the env::set_var and the insert into seen_vars
ExpandSet(t) ==
    LET p == pass[t]
        name == registry[p.i].name
    IN /\ p.pc = "expand_set"
       /\ set_var(t, name, p.value)
       /\ pass' = [pass EXCEPT ![t] =
                     advance(registry, [p EXCEPT !.pc = "expand", !.i = @ + 1,
                                                 !.value = None,
                                                 !.seen = [@ EXCEPT ![name] = p.value]])]
       /\ UNCHANGED <<registry, op, docs, envBefore, result, prev, envStart, overlap>>

\* expanded_map, second loop: one key of seen_vars, in the order of the HashMap
Rewrite(t) ==
    LET p == pass[t]
    IN /\ p.pc = "rewrite"
       /\ \E key \in p.todo :
           LET x == shellexpand_full(p.seen[key])
           IN IF ~x.ok
              THEN /\ pass' = [pass EXCEPT ![t] =
                                 [IdlePass EXCEPT !.pc = "done", !.result = MissingEnvVar]]
                   /\ UNCHANGED <<env, lastWrite>>
              ELSE /\ set_var(t, key, x.value)
                   /\ pass' = [pass EXCEPT ![t] =
                                 advance(registry, [p EXCEPT !.todo = @ \ {key}])]
       /\ UNCHANGED <<registry, op, docs, envBefore, result, prev, envStart, overlap>>

\* validate_env_vars: is_set of declaration i
ValidateRead(t) ==
    LET p == pass[t]
    IN /\ p.pc = "validate" /\ p.i <= Len(registry)
       /\ LET var == registry[p.i]
          IN pass' = [pass EXCEPT ![t] =
                        [p EXCEPT !.i = @ + 1,
                                  !.missing = IF is_set(var, env) THEN @
                                              ELSE @ \cup {missing_msg(var)}]]
       /\ UNCHANGED <<registry, env, op, docs, envBefore, result, prev, envStart,
                      overlap, lastWrite>>

\* validate_env_vars: the sort and the return of the call
Return(t) ==
    LET p == pass[t]
    IN /\ p.pc = "validate" /\ p.i > Len(registry)
       /\ \E v \in collect_vec(p.missing) :
           pass' = [pass EXCEPT ![t] =
                      [IdlePass EXCEPT !.pc = "done", !.merged = p.merged,
                                       !.result = sorted_result(v)]]
       /\ UNCHANGED <<registry, env, op, docs, envBefore, result, prev, envStart,
                      overlap, lastWrite>>

NextThreads ==
    \E t \in Threads :
        \/ Start(t)
        \/ ResolveRead(t)
        \/ ResolveSet(t)
        \/ ExpandRead(t)
        \/ ExpandSet(t)
        \/ Rewrite(t)
        \/ ValidateRead(t)
        \/ Return(t)

\* two threads that each call once, at any time, on a registry that declares
\* every name at most once
SpecThreads == InitDocs /\ [][NextThreads]_vars

----------------------------------------------------------------------------
(* Properties *)

\* the name has a declaration in the registry
Declared(n) == \E i \in DOMAIN registry : registry[i].name = n

\* the merged settings of the last load call
Merged == merged_settings(docs)

\* the last load call got past its files: the first one loaded, or there
\* was none
FilesLoaded == op = "load" /\ Merged.ok

\* the defaults that the declarations of a name carry at a priority
Defaults(n, p) ==
    { registry[i].default :
        i \in { j \in DOMAIN registry :
                  /\ registry[j].name = n
                  /\ registry[j].priority = p
                  /\ registry[j].default # None } }

\* the part of a "name=hint" entry before the first '=' and the part after it
RECURSIVE before_eq(_)
before_eq(s) ==
    IF s = <<>> \/ Head(s) = 61 THEN <<>> ELSE <<Head(s)>> \o before_eq(Tail(s))

RECURSIVE after_eq(_)
after_eq(s) ==
    IF s = <<>> THEN <<>> ELSE IF Head(s) = 61 THEN Tail(s) ELSE after_eq(Tail(s))

\* the names that the entries of a list report
list_names(l) ==
    { n \in Names : \E i \in DOMAIN l : before_eq(l[i]) = Ascii[n] }

\* the declared names without a value in the environment
Unset == { n \in Names : Declared(n) /\ env[n] = None }

\* C1: whenever load_and_validate_env_vars returns Ok, every name with a
\* declaration in the registry has a value in the environment.
C1_OkMeansAllSet ==
    (op = "load" /\ result = Ok) =>
        \A n \in Names : Declared(n) => env[n] # None

\* a call returned Ok after giving values to both names, declared more than
\* once and unset before
C1_Witness ==
    /\ op = "load" /\ result = Ok
    /\ \A n \in Names : Declared(n) /\ envBefore[n] = None /\ env[n] # None
    /\ Len(registry) > Cardinality(Names)

\* C2: a declared name that has a value in the environment when
\* load_and_validate_env_vars is called has the same value after the call.
C2_EnvironmentWins ==
    op = "load" =>
        \A n \in Names :
            (Declared(n) /\ envBefore[n] # None) => env[n] = envBefore[n]

\* a call where the file and a Binary and a Library default all give the
\* name another value than the environment held
C2_Witness ==
    /\ FilesLoaded
    /\ \E n \in Names :
        /\ envBefore[n] # None
        /\ Merged.settings[n] \notin {None, envBefore[n]}
        /\ Defaults(n, "Binary") \notin {{}, {envBefore[n]}}
        /\ Defaults(n, "Library") \notin {{}, {envBefore[n]}}
        /\ env[n] = envBefore[n]

C3_BinaryBeatsLibrary ==
    FilesLoaded =>
        \A n \in Names :
            (/\ envBefore[n] = None
             /\ Merged.settings[n] = None
             /\ Defaults(n, "Binary") # {}
             /\ Defaults(n, "Library") # {})
                => env[n] \in Defaults(n, "Binary")

\* the default of the last declaration of a name among those of a priority
\* that carry a default
LastWithDefault(n, p) ==
    LET S == { j \in DOMAIN registry :
                 /\ registry[j].name = n
                 /\ registry[j].priority = p
                 /\ registry[j].default # None }
    IN registry[CHOOSE j \in S : \A k \in S : k <= j].default

\* C4 as stated: a name that is unset, absent from the merged settings and
\* without a Binary default is set to the default of the last Library
\* declaration among those that have a default.
C4_LastLibraryDefault ==
    FilesLoaded =>
        \A n \in Names :
            (/\ envBefore[n] = None
             /\ Merged.settings[n] = None
             /\ Defaults(n, "Binary") = {}
             /\ Defaults(n, "Library") # {})
                => env[n] = LastWithDefault(n, "Library")

\* the index of the last file of a list that loaded and defines the key;
\* 0 if there is none
LastDefining(files, k) ==
    LET S == { i \in DOMAIN files :
                 files[i].kind = "toml" /\ files[i].table[k] # None }
    IN IF S = {} THEN 0 ELSE CHOOSE i \in S : \A j \in S : j <= i

\* C6: when the first file loads, the merged value of a key is the value
\* given by the last file that loaded and defines the key, whatever files
\* after the first failed; an unset declared name gets that value.
C6_LastFileWins ==
    (op = "load" /\ docs # <<>> /\ docs[1].kind = "toml") =>
        /\ Merged.ok
        /\ \A k \in Names :
            LET i == LastDefining(docs, k)
            IN /\ Merged.settings[k] = (IF i = 0 THEN None ELSE docs[i].table[k])
               /\ (i # 0 /\ Declared(k) /\ envBefore[k] = None)
                    => env[k] = docs[i].table[k]

\* a call with three files: the first and the third give an unset declared
\* name two values, the second fails
C6_Witness ==
    /\ op = "load" /\ Len(docs) = 3
    /\ docs[1].kind = "toml" /\ docs[2].kind # "toml" /\ docs[3].kind = "toml"
    /\ \E k \in Names :
        /\ Declared(k) /\ envBefore[k] = None
        /\ docs[1].table[k] # None /\ docs[3].table[k] # None
        /\ docs[1].table[k] # docs[3].table[k]
        /\ env[k] = docs[3].table[k]

\* C7: when the first file cannot be read or parsed,
\* load_and_validate_env_vars returns that file's ReadFileError or
\* ParseFileError and leaves the environment as it was.
C7_FirstFileIsMandatory ==
    (op = "load" /\ docs # <<>> /\ docs[1].kind # "toml") =>
        /\ result = (IF docs[1].kind = "unreadable" THEN ReadFileError(1)
                     ELSE ParseFileError(1))
        /\ env = envBefore

\* a call whose first file fails while a later file gives a value to every
\* declared name, one of them unset
C7_Witness ==
    /\ op = "load" /\ Len(docs) > 1 /\ docs[1].kind # "toml"
    /\ result.kind \in {"ReadFileError", "ParseFileError"}
    /\ registry # <<>>
    /\ \E i \in DOMAIN docs :
        /\ docs[i].kind = "toml"
        /\ \A n \in Names : Declared(n) => docs[i].table[n] # None
    /\ \E n \in Names : Declared(n) /\ env[n] = None

\* C9 as stated: validate_env_vars does not report a name that has a value
\* in the environment or a declaration with a default.
C9_AnyDefaultSatisfies ==
    op = "validate" =>
        \A n \in Names :
            (\/ env[n] # None
             \/ \E i \in DOMAIN registry :
                    registry[i].name = n /\ registry[i].default # None)
                => n \notin list_names(result.list)

\* the list is in ascending order without repetition
Sorted(l) == \A i, j \in DOMAIN l : i < j => StrLess(l[i], l[j])

\* the hints that the declarations of a name carry
HintsOf(n) ==
    { Ascii[registry[i].error] :
        i \in { j \in DOMAIN registry :
                  registry[j].name = n /\ registry[j].error # None } }

\* C10 as stated: the list of validate_env_vars is sorted, has at most one
\* entry for a name, and an entry carries a hint of a declaration of its
\* name if one has a hint and "(missing)" otherwise.
C10_OneEntryPerName ==
    op = "validate" =>
        /\ Sorted(result.list)
        /\ \A i, j \in DOMAIN result.list :
            before_eq(result.list[i]) = before_eq(result.list[j]) => i = j
        /\ \A i \in DOMAIN result.list : \A n \in Names :
            before_eq(result.list[i]) = Ascii[n] =>
                IF HintsOf(n) # {}
                THEN after_eq(result.list[i]) \in HintsOf(n)
                ELSE after_eq(result.list[i]) = Ascii["(missing)"]

\* C11: validate_env_vars changes neither the environment nor the registry,
\* and a call that directly follows another call of it returns the same
\* result, the missing entries in the same order.
C11_ValidateReadOnlyIdempotent ==
    [][op' = "validate" =>
        /\ env' = env
        /\ registry' = registry
        /\ op = "validate" => result' = result]_vars

\* a second call in a row that returned the same list of several entries
C11_Witness ==
    /\ op = "validate" /\ prev.op = "validate"
    /\ result.kind = "MissingEnvVars" /\ Len(result.list) > 1
    /\ result = prev.result
    /\ env = envStart

\* C12: load_and_validate_env_vars leaves a name without a declaration as
\* it was, set or unset, also when a file defines it and whatever the call
\* returns.
C12_OnlyDeclaredNamesWritten ==
    op = "load" =>
        \A k \in Names : ~Declared(k) => env[k] = envBefore[k]

\* a call whose file defines an unset name without a declaration and a
\* declared name, which it wrote
C12_Witness ==
    /\ FilesLoaded
    /\ \E k, n \in Names :
        /\ ~Declared(k) /\ Merged.settings[k] # None
        /\ envBefore[k] = None /\ env[k] = None
        /\ Declared(n) /\ envBefore[n] = None /\ env[n] = Merged.settings[n]
        /\ env[n] # None

Overwritten == lastWrite.old # None /\ lastWrite.new # lastWrite.old

====
